---- MODULE Spec2Model ----
(***************************************************************************)
(* Model of convert/tdfdr.py: from_2dfdr converts one 2dfdr-reduced        *)
(* HERMES exposure into one list of HDUs per program fibre.                *)
(*                                                                         *)
(* Representation.                                                         *)
(*  - A FITS header is a function from keyword to a card [v, c] (value,    *)
(*    comment).  header[k] = v keeps the comment of an existing card.      *)
(*  - A string that the code strips or splits is a sequence of words,      *)
(*    " " being a blank.  Other strings are TLA+ strings.                  *)
(*  - A float that the code only multiplies is the term                    *)
(*    [base, factors]: base * (1 + f1.num/f1.den) * (1 + f2.num/f2.den)... *)
(*    so that zero, one and two multiplications are different values.      *)
(*  - Angles count quarter turns of pi/np_pi radians, so that 180/pi is    *)
(*    the exact integer factor 180/np_pi.                                  *)
(*  - An HDU is [header, data, checksum]; data = <<>> is data=None;        *)
(*    checksum is <<>> before add_checksum and <<content>> after it, the   *)
(*    content being the header and data the digest was computed over.      *)
(***************************************************************************)
EXTENDS Integers, Sequences, FiniteSets, TLC

\* Largest number of rows of the fibre table (and of the flux and variance arrays).
MaxFibres == 3

\* astropy.constants.c in m / s.
SpeedOfLight == 299792458

\* pi in the model's angle unit.
np_pi == 4

WG6_VER == "6.4"

WG6_GIT_HASH == "0a1b2c3"

-----------------------------------------------------------------------------
\* Strings as word sequences: str.strip and str.split(" ")[0].

RECURSIVE lstrip(_)
lstrip(s) ==
    IF s # <<>> /\ Head(s) = " " THEN lstrip(Tail(s)) ELSE s

RECURSIVE rstrip(_)
rstrip(s) ==
    IF s # <<>> /\ s[Len(s)] = " " THEN rstrip(SubSeq(s, 1, Len(s) - 1)) ELSE s

strip(s) ==
    rstrip(lstrip(s))

\* s.split(" ")[0]: the text before the first blank ("" when s starts with one).
first_word(s) ==
    IF s = <<>> \/ Head(s) = " " THEN "" ELSE Head(s)

-----------------------------------------------------------------------------
\* astropy.io.fits.Header

Card(v, c) ==
    [v |-> v, c |-> c]

\* header[k] = v
HSet(h, k, v) ==
    [x \in DOMAIN h \cup {k} |->
        IF x = k
        THEN Card(v, IF k \in DOMAIN h THEN h[k].c ELSE "")
        ELSE h[x]]

\* header.comments[k] = c   (k is a card of h)
HSetComment(h, k, c) ==
    [h EXCEPT ![k].c = c]

\* del header[k]
HDel(h, k) ==
    [x \in DOMAIN h \ {k} |-> h[x]]

\* header["HISTORY"] = text appends a HISTORY card.
HAddHistory(h, text) ==
    IF "HISTORY" \in DOMAIN h
    THEN [h EXCEPT !["HISTORY"].v = Append(@, text)]
    ELSE HSet(h, "HISTORY", <<text>>)

EmptyHeader ==
    [x \in {} |-> Card("", "")]

\* value *= 1. + factor
Times(x, f) ==
    [x EXCEPT !.factors = Append(@, f)]

Float(b) ==
    [base |-> b, factors |-> <<>>]

\* The five wavelength-axis keywords copied between extensions.
AxisKeys ==
    <<"CRVAL1", "CDELT1", "CRPIX1", "CTYPE1", "CUNIT1">>

\* The second-axis keywords deleted from the template.
Axis2Keys ==
    <<"CDELT2", "CRPIX2", "CRVAL2", "CTYPE2", "CUNIT2">>

-----------------------------------------------------------------------------
\* HDUs

NoHdu ==
    [header |-> EmptyHeader, data |-> <<>>, checksum |-> <<>>]

\* What a checksum is computed over: the header cards and the data.
Content(hdu) ==
    [header |-> hdu.header, data |-> hdu.data]

\* hdu.add_checksum()
add_checksum(hdu) ==
    [hdu EXCEPT !.checksum = <<Content(hdu)>>]

\* fits.ImageHDU(data=None, header=None)
EmptyImageHDU ==
    [header |-> EmptyHeader, data |-> <<>>, checksum |-> <<>>]

-----------------------------------------------------------------------------
\* Pure functions of convert/tdfdr.py.  An image is a sequence of HDUs; the
\* code's 0-based image[i] is Hdu(image, i).

Hdu(image, i) ==
    image[i + 1]

RECURSIVE index_from(_, _, _)
index_from(s, x, i) ==
    IF i > Len(s) THEN -1
    ELSE IF s[i] = x THEN i - 1
    ELSE index_from(s, x, i + 1)

\* list.index(x), 0-based; -1 stands for the ValueError of an absent element.
list_index(s, x) ==
    index_from(s, x, 1)

\* map(str.strip, [hdu.header.get("EXTNAME", "") for hdu in image])
extnames(image) ==
    [i \in 1..Len(image) |->
        strip(IF "EXTNAME" \in DOMAIN image[i].header
              THEN image[i].header["EXTNAME"].v
              ELSE <<>>)]

read_2dfdr_extensions(image) ==
    [data |-> 0,
     variance |-> list_index(extnames(image), <<"VARIANCE">>),
     fibres |-> list_index(extnames(image), <<"FIBRES">>)]

\* TRUE when both asserts of verify_hermes_origin pass.
verify_hermes_origin_no_instrume(image) ==
    strip(Hdu(image, 0).header["ORIGIN"].v) = <<"AAO">>

verify_hermes_origin(image) ==
    /\ strip(Hdu(image, 0).header["ORIGIN"].v) = <<"AAO">>
    /\ strip(Hdu(image, 0).header["INSTRUME"].v) = <<"HERMES-2dF">>

ccd_numbers ==
    ("BLUE" :> 1) @@ ("GREEN" :> 2) @@ ("RED" :> 3) @@ ("IR" :> 4)

ccd_name(image) ==
    first_word(Hdu(image, 0).header["SPLYTEMP"].c)

\* get_ccd_number raises KeyError when the token is no key of the mapping.
ccd_known(image) ==
    ccd_name(image) \in DOMAIN ccd_numbers

get_ccd_number(image) ==
    <<ccd_numbers[ccd_name(image)], ccd_name(image)>>

\* An entry of the keywords list: a bare name, or a (source, target) pair.
Name(n) ==
    [isstr |-> TRUE, a |-> n, b |-> n]

Pair(from, to) ==
    [isstr |-> FALSE, a |-> from, b |-> to]

keywords_all_pairs ==
    <<Pair("NAME", "NAME"), Pair("RA", "RA"), Pair("DEC", "DEC"),
      Pair("PMRA", "PMRA"), Pair("PMDEC", "PMDEC"),
      Pair("MAGNITUDE", "MAG"), Pair("COMMENT", "DESCR")>>

keywords ==
    <<Name("NAME"), Name("RA"), Name("DEC"), Name("PMRA"), Name("PMDEC"),
      Pair("MAGNITUDE", "MAG"), Pair("COMMENT", "DESCR")>>

\* Python's `s in list` for a string s: some element equals s, and a string
\* equals no tuple.
Contains(list, s) ==
    \E i \in 1..Len(list) : list[i].isstr /\ list[i].a = s

keyword_comments ==
    ("NAME" :> "Input source name") @@
    ("DESCR" :> "Input source comment") @@
    ("MAG" :> "Input source magnitude") @@
    ("RA" :> "Right Ascension (degrees)") @@
    ("DEC" :> "Declination (degrees)") @@
    ("PMRA" :> "Proper motion in RA (mas/yr)") @@
    ("PMDEC" :> "Proper motion in DEC (mas/yr)") @@
    ("FIBRE" :> "Fibre number")

\* x *= 180./np.pi
rad2deg(x) ==
    (x * 180) \div np_pi

\* variance**0.5 on one sample (the variances of the model are squares).
sqrt(x) ==
    CHOOSE r \in 0..x : r * r = x

\* The rows of the fibre table whose TYPE is "P", ascending, 0-based:
\* np.where(table["TYPE"] == "P")[0].
RECURSIVE where_from(_, _, _)
where_from(table, t, i) ==
    IF i > Len(table) THEN <<>>
    ELSE IF table[i]["TYPE"] = t
         THEN <<i - 1>> \o where_from(table, t, i + 1)
         ELSE where_from(table, t, i + 1)

where_any_type(table) ==
    [i \in 1..Len(table) |-> i - 1]

where_type_P(table) ==
    where_from(table, "P", 1)

\* Lines 178-183: the catalog columns copied into the header, in list order.
\* A column absent from the row raises (KeyError) and ends the copying.
RECURSIVE copy_keywords(_, _, _, _)
copy_keywords(h, row, kws, i) ==
    IF i > Len(kws) \/ kws[i].a \notin DOMAIN row THEN h
    ELSE copy_keywords(HSet(h, kws[i].b, row[kws[i].a]), row, kws, i + 1)

catalog_complete(row, kws) ==
    \A i \in 1..Len(kws) : kws[i].a \in DOMAIN row

\* Lines 186-188.
convert_coordinates(h, kws) ==
    IF Contains(kws, "RA") /\ Contains(kws, "DEC")
    THEN HSet(HSet(h, "RA", rad2deg(h["RA"].v)), "DEC", rad2deg(h["DEC"].v))
    ELSE h

\* Lines 191-192.
RECURSIVE set_comments(_, _, _)
set_comments(h, comments, todo) ==
    IF todo = {} THEN h
    ELSE LET k == CHOOSE x \in todo : TRUE
         IN set_comments(HSetComment(h, k, comments[k]), comments, todo \ {k})

\* Lines 176-192 on the header cloned from the template.
object_header(h, row, program_index) ==
    set_comments(
        convert_coordinates(
            copy_keywords(HSet(h, "FIBRE", program_index + 1), row, keywords, 1),
            keywords),
        keyword_comments, DOMAIN keyword_comments)

\* Copy of the five wavelength-axis cards, values and comments, from one
\* header into another (lines 71-73, 84-86, 203-205).
RECURSIVE copy_axis(_, _, _)
copy_axis(to, from, i) ==
    IF i > Len(AxisKeys) THEN to
    ELSE copy_axis(
            HSetComment(HSet(to, AxisKeys[i], from[AxisKeys[i]].v),
                        AxisKeys[i], from[AxisKeys[i]].c),
            from, i + 1)

set_extname(hdu, name, comment) ==
    [hdu EXCEPT !.header = HSetComment(HSet(@, "EXTNAME", name), "EXTNAME", comment)]

\* dummy_normalisation_hdus(hdulist=None): no axis cards are copied.
dummy_normalisation_hdus_no_hdulist(hdulist) ==
    <<add_checksum(set_extname(EmptyImageHDU,
            "normalised_spectrum", "Normalised spectrum flux")),
      add_checksum(set_extname(EmptyImageHDU,
            "normalised_sigma", "Normalised flux sigma"))>>

dummy_normalisation_hdus(hdulist) ==
    <<add_checksum(set_extname(
            [EmptyImageHDU EXCEPT !.header = copy_axis(@, hdulist[1].header, 1)],
            "normalised_spectrum", "Normalised spectrum flux")),
      add_checksum(set_extname(
            [EmptyImageHDU EXCEPT !.header = copy_axis(@, hdulist[1].header, 1)],
            "normalised_sigma", "Normalised flux sigma"))>>

default_headers ==
    <<<<"VRAD", "Radial velocity (km/s)">>,
      <<"U_VRAD", "Uncertainty on radial velocity (km/s)">>,
      <<"TEFF", "Effective temperature">>,
      <<"LOGG", "Surface gravity">>,
      <<"FE_H", "Metallicity ([Fe/H])">>,
      <<"ALPHA_FE", "Alpha-enhancement ([alpha/Fe])">>>>

RECURSIVE set_defaults(_, _)
set_defaults(hdu, i) ==
    IF i > Len(default_headers) THEN hdu
    ELSE set_defaults(
            [hdu EXCEPT !.header =
                HSetComment(HSet(@, default_headers[i][1], "NaN"),
                            default_headers[i][1], default_headers[i][2])],
            i + 1)

\* The checksum taken before the default cards are written.
dummy_ccf_hdu_checksum_first(hdulist) ==
    set_defaults(
        add_checksum(set_extname(EmptyImageHDU, "CCF", "CCF from best-fitting template")),
        1)

dummy_ccf_hdu(hdulist) ==
    add_checksum(
        set_defaults(
            set_extname(EmptyImageHDU, "CCF", "CCF from best-fitting template"),
            1))

-----------------------------------------------------------------------------
\* astropy.units.Quantity, as far as the code uses it.

Q(v, u) ==
    [value |-> v, unit |-> u]

\* The size of a velocity unit in m / s.
unit_in_m_s(u) ==
    IF u = "km / s" THEN 1000 ELSE 1

\* q.to("km/s").value, the exact ratio num/den.
to_km_s_value(q) ==
    [num |-> q.value * unit_in_m_s(q.unit), den |-> 1000]

\* (q / speed_of_light).value: the quotient of the two numbers.  Quantity
\* division divides the values and combines the units (km / m for q in
\* km / s); .value returns the number without reducing the unit.
quotient_value(q) ==
    [num |-> q.value, den |-> SpeedOfLight]

\* What motions.from_header may answer: (v_bary, v_helio), velocity
\* quantities in a unit of the service's choosing.
MotionAnswers ==
    {[v_bary |-> Q(30, "km / s"), v_helio |-> Q(29, "km / s")],
     [v_bary |-> Q(-21000, "m / s"), v_helio |-> Q(-20500, "m / s")]}

NoAnswer ==
    [v_bary |-> Q(0, ""), v_helio |-> Q(0, "")]

-----------------------------------------------------------------------------
\* The exposures the model reads.

PrimaryHeader(origin, instrume, splytemp) ==
    ("ORIGIN" :> Card(origin, "Originating Institution")) @@
    ("INSTRUME" :> Card(instrume, "Instrument in use")) @@
    ("SPLYTEMP" :> Card(17, splytemp)) @@
    ("CRVAL1" :> Card(Float(4713), "Co-ordinate value of axis 1")) @@
    ("CDELT1" :> Card(Float(45), "Co-ordinate increment along axis 1")) @@
    ("CRPIX1" :> Card(2048, "Reference pixel along axis 1")) @@
    ("CTYPE1" :> Card("Wavelength", "Label for axis 1")) @@
    ("CUNIT1" :> Card("Angstroms", "Units for axis 1")) @@
    ("CRVAL2" :> Card(0, "Co-ordinate value of axis 2")) @@
    ("CDELT2" :> Card(1, "Co-ordinate increment along axis 2")) @@
    ("CRPIX2" :> Card(1, "Reference pixel along axis 2")) @@
    ("CTYPE2" :> Card("Fibre number", "Label for axis 2")) @@
    ("CUNIT2" :> Card("", "Units for axis 2"))

Origins ==
    {<<"AAO">>, <<"AAO", " ">>, <<"ESO">>}

Instruments ==
    {<<"HERMES-2dF", " ">>, <<"AAOMEGA-2dF">>}

SplytempComments ==
    {<<"GREEN", " ", "camera">>, <<"IR", " ", "camera">>, <<"UV", " ", "camera">>}

\* The EXTNAMEs of the extensions after the primary one.
Layouts ==
    {<<<<"VARIANCE">>, <<"FIBRES", " ">>>>,
     <<<<"FIBRES">>, <<"NDF_CLASS">>, <<"VARIANCE", " ">>>>,
     <<<<"VARIANCE">>>>,
     <<<<"FIBRES">>>>}

FibreRows ==
    {[TYPE |-> "P", NAME |-> "star_a", RA |-> 4, DEC |-> -1,
      PMRA |-> 3, PMDEC |-> -2, MAGNITUDE |-> 12, COMMENT |-> "bright"],
     [TYPE |-> "P", NAME |-> "star_b", RA |-> 1, DEC |-> 2,
      PMRA |-> 0, PMDEC |-> 5, MAGNITUDE |-> 14, COMMENT |-> "faint"],
     [TYPE |-> "S", NAME |-> "sky", RA |-> 3, DEC |-> 1,
      PMRA |-> 0, PMDEC |-> 0, MAGNITUDE |-> 0, COMMENT |-> "sky"]}

\* A table without one of its catalog columns ("" drops nothing).
DroppedColumns ==
    {"", "DEC", "COMMENT"}

Tables ==
    UNION {[1..n -> FibreRows] : n \in 0..MaxFibres}

DropColumn(table, col) ==
    [i \in 1..Len(table) |-> [c \in DOMAIN table[i] \ {col} |-> table[i][c]]]

FluxArray(n) ==
    [i \in 1..n |-> <<10 + i, 20 + i>>]

VarianceArray(n) ==
    [i \in 1..n |-> <<i * i, 4>>]

Extension(name, table) ==
    [header |-> ("EXTNAME" :> Card(name, "")),
     data |-> IF strip(name) = <<"VARIANCE">> THEN VarianceArray(Len(table))
              ELSE IF strip(name) = <<"FIBRES">> THEN table
              ELSE <<>>,
     checksum |-> <<>>]

Exposure(origin, instrume, splytemp, layout, table) ==
    <<[header |-> PrimaryHeader(origin, instrume, splytemp),
       data |-> FluxArray(Len(table)),
       checksum |-> <<>>]>>
    \o [i \in 1..Len(layout) |-> Extension(layout[i], table)]

-----------------------------------------------------------------------------
\* State of one call from_2dfdr(reduced_filename, dummy_hdus).

VARIABLES
    image,              \* the opened exposure (fits.open)
    dummy_hdus,         \* the placeholder switch
    handle,             \* "unopened", "open" or "closed"
    pc,                 \* position in from_2dfdr
    error,              \* the exception raised, "" when none
    returned,           \* what the caller received
    ext,                \* read_2dfdr_extensions(image)
    heap,               \* the Header objects made by .copy(), by reference
    header_template,    \* reference of the template (0: unbound)
    header,             \* reference of the current object's header (0: unbound)
    program_indices,    \* np.where(...)[0], evaluated once by the for statement
    k,                  \* number of loop iterations completed
    flux,
    variance,
    hdu_flux,
    hdu_sigma,
    answer,             \* (v_bary, v_helio) of the current object
    hdulist,
    extracted_sources,
    motion_calls        \* the motion service's record of the calls it served

vars ==
    <<image, dummy_hdus, handle, pc, error, returned, ext, heap, header_template,
      header, program_indices, k, flux, variance, hdu_flux, hdu_sigma, answer,
      hdulist, extracted_sources, motion_calls>>

inputs ==
    <<image, dummy_hdus>>

object_locals ==
    <<header, flux, variance, hdu_flux, hdu_sigma, answer, hdulist>>

Init ==
    /\ \E origin \in Origins, instrume \in Instruments,
          splytemp \in SplytempComments, layout \in Layouts,
          table \in Tables, col \in DroppedColumns :
            image = Exposure(origin, instrume, splytemp, layout, DropColumn(table, col))
    /\ dummy_hdus \in BOOLEAN
    /\ handle = "unopened"
    /\ pc = "open"
    /\ error = ""
    /\ returned = <<>>
    /\ ext = [data |-> 0, variance |-> -1, fibres |-> -1]
    /\ heap = <<>>
    /\ header_template = 0
    /\ header = 0
    /\ program_indices = <<>>
    /\ k = 0
    /\ flux = <<>>
    /\ variance = <<>>
    /\ hdu_flux = NoHdu
    /\ hdu_sigma = NoHdu
    /\ answer = NoAnswer
    /\ hdulist = <<>>
    /\ extracted_sources = <<>>
    /\ motion_calls = <<>>

\* An exception leaves from_2dfdr: nothing catches it, no finally or with
\* block runs, and the caller receives no value.
RaiseReturningPartial(kind) ==
    /\ pc' = "returned"
    /\ error' = kind
    /\ returned' = extracted_sources

Raise(kind) ==
    /\ pc' = "raised"
    /\ error' = kind
    /\ returned' = returned

\* header.copy(): a new Header object at reference `new` holding the cards of
\* heap[ref]; the result is the heap and the reference of the copy.
HeaderNoCopy(hp, ref, new) ==
    [heap |-> hp, ref |-> ref]

HeaderCopy(hp, ref, new) ==
    [heap |-> [r \in DOMAIN hp \cup {new} |-> IF r = new THEN hp[ref] ELSE hp[r]],
     ref |-> new]

-----------------------------------------------------------------------------
\* from_2dfdr, statement by statement.

\* Line 137: image = fits.open(reduced_filename)
Open ==
    /\ pc = "open"
    /\ handle' = "open"
    /\ pc' = "read_extensions"
    /\ UNCHANGED <<inputs, error, returned, ext, heap, header_template,
                   program_indices, k, object_locals, extracted_sources, motion_calls>>

\* Line 138: ext = read_2dfdr_extensions(image)
ReadExtensions ==
    /\ pc = "read_extensions"
    /\ LET e == read_2dfdr_extensions(image)
       IN \/ /\ e.variance >= 0 /\ e.fibres >= 0
             /\ ext' = e
             /\ pc' = "verify"
             /\ UNCHANGED <<error, returned>>
          \/ /\ e.variance < 0 \/ e.fibres < 0
             /\ Raise("MissingExtension")
             /\ UNCHANGED ext
    /\ UNCHANGED <<inputs, handle, heap, header_template, program_indices, k,
                   object_locals, extracted_sources, motion_calls>>

\* Line 141: verify_hermes_origin(image)
VerifyOrigin ==
    /\ pc = "verify"
    /\ \/ /\ verify_hermes_origin(image)
          /\ pc' = "template"
          /\ UNCHANGED <<error, returned>>
       \/ /\ ~verify_hermes_origin(image)
          /\ Raise("OriginMismatch")
    /\ UNCHANGED <<inputs, handle, ext, heap, header_template, program_indices, k,
                   object_locals, extracted_sources, motion_calls>>

RECURSIVE delete_keys(_, _, _)
delete_keys(h, keys, i) ==
    IF i > Len(keys) THEN h ELSE delete_keys(HDel(h, keys[i]), keys, i + 1)

\* Lines 161-166 on the template, given get_ccd_number's result.
stamp_template(h, ccd) ==
    HSetComment(
     HSetComment(
      HSet(
       HSet(
        HSetComment(HSet(h, "CCD", ccd[1]), "CCD", <<ccd[2], " ", "camera">>),
        "WG6_VER", WG6_VER),
       "WG6_HASH", WG6_GIT_HASH),
      "WG6_VER", "WG6 standardisation code version"),
     "WG6_HASH", "WG6 standardisation commit hash")

\* Lines 156-166: the header template.  get_ccd_number (line 160) runs after
\* the copy and the deletions.
BuildTemplate ==
    /\ pc = "template"
    /\ header_template' = 1
    /\ LET copied == delete_keys(Hdu(image, ext.data).header, Axis2Keys, 1)
       IN \/ /\ ccd_known(image)
             /\ heap' = (1 :> stamp_template(copied, get_ccd_number(image)))
             /\ pc' = "locate"
             /\ UNCHANGED <<error, returned>>
          \/ /\ ~ccd_known(image)
             /\ heap' = (1 :> copied)
             /\ Raise("UnknownChannel")
    /\ UNCHANGED <<inputs, handle, ext, program_indices, k, object_locals,
                   extracted_sources, motion_calls>>

\* Lines 168-169: extracted_sources = [] and the iterable of the for statement.
Locate ==
    /\ pc = "locate"
    /\ extracted_sources' = <<>>
    /\ program_indices' = where_type_P(Hdu(image, ext.fibres).data)
    /\ k' = 0
    /\ pc' = "loop"
    /\ UNCHANGED <<inputs, handle, error, returned, ext, heap, header_template,
                   object_locals, motion_calls>>

\* Lines 171-192: slices, the header cloned from the template, the catalog
\* fields.
Extract ==
    /\ pc = "loop"
    /\ k < Len(program_indices)
    /\ LET program_index == program_indices[k + 1]
           row == Hdu(image, ext.fibres).data[program_index + 1]
           cp == HeaderCopy(heap, header_template, 2)
           numbered == HSet(cp.heap[cp.ref], "FIBRE", program_index + 1)
       IN /\ flux' = Hdu(image, ext.data).data[program_index + 1]
          /\ variance' = Hdu(image, ext.variance).data[program_index + 1]
          /\ header' = cp.ref
          /\ \/ /\ catalog_complete(row, keywords)
                /\ heap' = [cp.heap EXCEPT ![cp.ref] =
                                object_header(@, row, program_index)]
                /\ pc' = "hdus"
                /\ UNCHANGED <<error, returned>>
             \/ /\ ~catalog_complete(row, keywords)
                /\ heap' = [cp.heap EXCEPT ![cp.ref] =
                                copy_keywords(numbered, row, keywords, 1)]
                /\ Raise("MissingCatalogField")
    /\ UNCHANGED <<inputs, handle, ext, header_template, program_indices, k,
                   hdu_flux, hdu_sigma, answer, hdulist, extracted_sources,
                   motion_calls>>

\* fits.PrimaryHDU(data, header): the HDU holds its own copy of the cards.
PrimaryHDU(data, h) ==
    [header |-> h, data |-> data, checksum |-> <<>>]

\* Lines 195-207.
BuildHdus ==
    /\ pc = "hdus"
    /\ LET f == set_extname(PrimaryHDU(flux, heap[header]),
                            "input_spectrum", "Spectrum flux")
           s == [header |-> copy_axis(EmptyHeader, f.header, 1),
                 data |-> [i \in DOMAIN variance |-> sqrt(variance[i])],
                 checksum |-> <<>>]
       IN /\ hdu_flux' = f
          /\ hdu_sigma' = set_extname(s, "input_sigma", "Flux sigma")
    /\ pc' = "motion"
    /\ UNCHANGED <<inputs, handle, error, returned, ext, heap, header_template,
                   header, program_indices, k, flux, variance, answer, hdulist,
                   extracted_sources, motion_calls>>

\* Lines 212-216 on hdu_flux.
record_velocities(hdu, a) ==
    [hdu EXCEPT !.header =
        HAddHistory(
         HSetComment(
          HSetComment(
           HSet(HSet(@, "V_BARY", to_km_s_value(a.v_bary)),
                "V_HELIO", to_km_s_value(a.v_helio)),
           "V_BARY", "Barycentric motion (km/s)"),
          "V_HELIO", "Heliocentric motion (km/s)"),
         "Corrected for barycentric motion (V_BARY)")]

\* Lines 210-216: the motion service answers or fails.
Motion ==
    /\ pc = "motion"
    /\ \/ \E a \in MotionAnswers :
            /\ answer' = a
            /\ motion_calls' = Append(motion_calls,
                    [fibre |-> heap[header]["FIBRE"].v, ok |-> TRUE, answer |-> a])
            /\ hdu_flux' = record_velocities(hdu_flux, a)
            /\ pc' = "correct"
            /\ UNCHANGED <<error, returned>>
       \/ /\ motion_calls' = Append(motion_calls,
                    [fibre |-> heap[header]["FIBRE"].v, ok |-> FALSE, answer |-> NoAnswer])
          /\ Raise("MotionFailure")
          /\ UNCHANGED <<answer, hdu_flux>>
    /\ UNCHANGED <<inputs, handle, ext, heap, header_template, header,
                   program_indices, k, flux, variance, hdu_sigma, hdulist,
                   extracted_sources>>

\* Lines 220-221 on one HDU.
doppler(hdu, f) ==
    [hdu EXCEPT !.header =
        HSet(HSet(@, "CRVAL1", Times(@["CRVAL1"].v, f)),
             "CDELT1", Times(@["CDELT1"].v, f))]

\* Lines 219-221: for hdu in (hdu_flux, hdu_sigma).
corrected_flux_only(f, s, a) ==
    <<doppler(f, quotient_value(a.v_bary)), s>>

corrected(f, s, a) ==
    <<doppler(f, quotient_value(a.v_bary)), doppler(s, quotient_value(a.v_bary))>>

Correct ==
    /\ pc = "correct"
    /\ hdu_flux' = corrected(hdu_flux, hdu_sigma, answer)[1]
    /\ hdu_sigma' = corrected(hdu_flux, hdu_sigma, answer)[2]
    /\ pc' = "checksum"
    /\ UNCHANGED <<inputs, handle, error, returned, ext, heap, header_template,
                   header, program_indices, k, flux, variance, answer, hdulist,
                   extracted_sources, motion_calls>>

\* Lines 224-225.  The list holds the two HDU objects themselves.
Checksum ==
    /\ pc = "checksum"
    /\ hdu_flux' = add_checksum(hdu_flux)
    /\ hdu_sigma' = add_checksum(hdu_sigma)
    /\ hdulist' = <<hdu_flux', hdu_sigma'>>
    /\ pc' = "dummy"
    /\ UNCHANGED <<inputs, handle, error, returned, ext, heap, header_template,
                   header, program_indices, k, flux, variance, answer,
                   extracted_sources, motion_calls>>

\* Lines 228-230.
with_dummy_hdus(hl) ==
    LET extended == hl \o dummy_normalisation_hdus(hl)
    IN Append(extended, dummy_ccf_hdu(extended))

AddDummies ==
    /\ pc = "dummy"
    /\ \/ /\ dummy_hdus
          /\ hdulist' = with_dummy_hdus(hdulist)
       \/ /\ ~dummy_hdus
          /\ UNCHANGED hdulist
    /\ pc' = "append"
    /\ UNCHANGED <<inputs, handle, error, returned, ext, heap, header_template,
                   header, program_indices, k, flux, variance, hdu_flux, hdu_sigma,
                   answer, extracted_sources, motion_calls>>

\* Line 232, and the for statement's step to the next index.
AppendSource ==
    /\ pc = "append"
    /\ extracted_sources' = Append(extracted_sources, hdulist)
    /\ k' = k + 1
    /\ pc' = "loop"
    /\ UNCHANGED <<inputs, handle, error, returned, ext, heap, header_template,
                   program_indices, object_locals, motion_calls>>

\* Line 234, reached when the iterable is exhausted.
Close ==
    /\ pc = "loop"
    /\ k = Len(program_indices)
    /\ handle' = "closed"
    /\ pc' = "return"
    /\ UNCHANGED <<inputs, error, returned, ext, heap, header_template,
                   program_indices, k, object_locals, extracted_sources, motion_calls>>

\* Line 236.
Return ==
    /\ pc = "return"
    /\ returned' = extracted_sources
    /\ pc' = "returned"
    /\ UNCHANGED <<inputs, handle, error, ext, heap, header_template,
                   program_indices, k, object_locals, extracted_sources, motion_calls>>

Next ==
    \/ Open
    \/ ReadExtensions
    \/ VerifyOrigin
    \/ BuildTemplate
    \/ Locate
    \/ Extract
    \/ BuildHdus
    \/ Motion
    \/ Correct
    \/ Checksum
    \/ AddDummies
    \/ AppendSource
    \/ Close
    \/ Return

Spec ==
    Init /\ [][Next]_vars

-----------------------------------------------------------------------------
\* Vocabulary of the properties, read off the exposure rather than off the
\* locals of from_2dfdr.

Terminated ==
    pc \in {"returned", "raised"}

NonBlank(w) ==
    w # " "

HasExtension(name) ==
    \E i \in 1..Len(image) :
        /\ "EXTNAME" \in DOMAIN image[i].header
        /\ SelectSeq(image[i].header["EXTNAME"].v, NonBlank) = <<name>>

ExtensionsPresent ==
    HasExtension("VARIANCE") /\ HasExtension("FIBRES")

\* The fibre table of the exposure (<<>> when it has none).
Catalog ==
    IF HasExtension("FIBRES")
    THEN image[CHOOSE i \in 1..Len(image) :
                /\ "EXTNAME" \in DOMAIN image[i].header
                /\ SelectSeq(image[i].header["EXTNAME"].v, NonBlank) = <<"FIBRES">>].data
    ELSE <<>>

\* 0-based indices of the program rows.
ProgramRows ==
    {i \in 0..(Len(Catalog) - 1) : Catalog[i + 1]["TYPE"] = "P"}

IsHermes ==
    /\ SelectSeq(image[1].header["ORIGIN"].v, NonBlank) = <<"AAO">>
    /\ SelectSeq(image[1].header["INSTRUME"].v, NonBlank) = <<"HERMES-2dF">>

Fibre(product) ==
    product[1].header["FIBRE"].v

\* The motion service's answer to the call made for a fibre number.
ServedFor(fibre) ==
    motion_calls[CHOOSE i \in 1..Len(motion_calls) : motion_calls[i].fibre = fibre].answer

Sealed(hdu) ==
    hdu.checksum = <<Content(hdu)>>

ExtNames(product) ==
    [e \in 1..Len(product) |->
        IF "EXTNAME" \in DOMAIN product[e].header
        THEN product[e].header["EXTNAME"].v ELSE ""]

HasValue(h, key, v) ==
    key \in DOMAIN h /\ h[key].v = v

SameAxis(h, g) ==
    \A i \in 1..Len(AxisKeys) :
        /\ AxisKeys[i] \in DOMAIN h
        /\ AxisKeys[i] \in DOMAIN g
        /\ h[AxisKeys[i]].v = g[AxisKeys[i]].v

-----------------------------------------------------------------------------
\* C1: a call that returns normally returns exactly one product per row of
\* the fibre table whose TYPE is "P", in ascending row order, the k-th
\* product carrying FIBRE = (index of the k-th program row) + 1; with no
\* program row the result is the empty list, and the absence of program rows
\* raises nothing.
C1_OneProductPerProgramFibre ==
    /\ pc = "returned" =>
        /\ Len(returned) = Cardinality(ProgramRows)
        /\ \A j \in 1..Len(returned) :
            /\ Fibre(returned[j]) - 1 \in ProgramRows
            /\ Cardinality({r \in ProgramRows : r <= Fibre(returned[j]) - 1}) = j
    /\ (pc = "raised" /\ ProgramRows = {}) =>
        error \in {"MissingExtension", "OriginMismatch", "UnknownChannel"}

\* Two products returned from a table whose first row is not a program row.
C1_Witness ==
    /\ pc = "returned"
    /\ Len(returned) = 2
    /\ Fibre(returned[1]) = 2
    /\ Fibre(returned[2]) = 3

\* C2: whenever from_2dfdr terminates, by returning or by raising, the
\* exposure's file handle has been closed.
C2_HandleReleasedOnEveryExit ==
    Terminated => handle = "closed"

\* C3 as claimed: with ORIGIN or INSTRUME not the expected one, the call ends
\* with the origin-mismatch error, no output, no template, no object and no
\* motion call.
C3_OriginMismatchAlwaysRaised ==
    (Terminated /\ ~IsHermes) =>
        /\ pc = "raised"
        /\ error = "OriginMismatch"
        /\ returned = <<>>
        /\ header_template = 0
        /\ extracted_sources = <<>>
        /\ motion_calls = <<>>

\* C3 as amended: with ORIGIN or INSTRUME not the expected one, the call
\* never returns, never builds the template, never extracts an object and
\* never calls the motion service; it raises the origin-mismatch error when
\* the VARIANCE and FIBRES extensions are both present and the
\* missing-extension error (raised first, by read_2dfdr_extensions) otherwise.
C3_OriginMismatchAfterExtensions ==
    ~IsHermes =>
        /\ pc \in {"open", "read_extensions", "verify", "raised"}
        /\ returned = <<>>
        /\ header_template = 0
        /\ heap = <<>>
        /\ header = 0
        /\ extracted_sources = <<>>
        /\ motion_calls = <<>>
        /\ (pc = "raised" /\ ExtensionsPresent) => error = "OriginMismatch"
        /\ (pc = "raised" /\ ~ExtensionsPresent) => error = "MissingExtension"

\* The origin-mismatch error raised for an exposure with the right ORIGIN and
\* a foreign INSTRUME.
C3_Witness ==
    /\ pc = "raised"
    /\ error = "OriginMismatch"
    /\ SelectSeq(image[1].header["ORIGIN"].v, NonBlank) = <<"AAO">>
    /\ ~IsHermes

\* C4: no partial success.  A call that returns has raised nothing and hands
\* over one assembled product per located object; a failure at any stage of
\* any object ends the call raised with nothing handed over; a failed motion
\* call is the last one and no fibre is served twice.
C4_AllOrNothing ==
    /\ pc = "returned" =>
        /\ error = ""
        /\ Len(returned) = Cardinality(ProgramRows)
        /\ \A j \in 1..Len(returned) :
            /\ Len(returned[j]) >= 2
            /\ \A e \in 1..Len(returned[j]) : returned[j][e].checksum # <<>>
    /\ pc = "raised" => returned = <<>>
    /\ error # "" => pc = "raised"
    /\ \A i, j \in 1..Len(motion_calls) :
        i < j => /\ motion_calls[i].fibre # motion_calls[j].fibre
                 /\ motion_calls[i].ok

\* The motion service fails on an object after an earlier one was assembled.
C4_Witness ==
    /\ pc = "raised"
    /\ error = "MotionFailure"
    /\ Len(extracted_sources) >= 1
    /\ returned = <<>>

\* C5: in every returned product the five wavelength-axis fields of
\* input_sigma equal those of input_spectrum.
C5_SigmaAxisEqualsFluxAxis ==
    \A j \in 1..Len(returned) :
        SameAxis(returned[j][2].header, returned[j][1].header)

\* A returned product whose input_spectrum calibration was rescaled.
C5_Witness ==
    /\ pc = "returned"
    /\ Len(returned) >= 1
    /\ returned[1][1].header["CRVAL1"].v # image[1].header["CRVAL1"].v
    /\ ExtNames(returned[1])[2] = "input_sigma"

\* v_bary / c as a pure number, for v_bary in any velocity unit.
ratio_to_c(q) ==
    [num |-> q.value * unit_in_m_s(q.unit), den |-> SpeedOfLight]

\* C6: in every returned product CRVAL1 and CDELT1 of input_spectrum and of
\* input_sigma are the exposure's values multiplied exactly once by
\* (1 + v_bary/c), v_bary being the barycentric velocity the motion service
\* returned for that object.
C6_RescaledOnceByBarycentricVelocity ==
    \A j \in 1..Len(returned) :
        LET f == ratio_to_c(ServedFor(Fibre(returned[j])).v_bary)
        IN \A e \in {1, 2}, key \in {"CRVAL1", "CDELT1"} :
            returned[j][e].header[key].v = Times(image[1].header[key].v, f)

\* What the code does about C6: one factor, made of the number of v_bary (in
\* whichever unit the service chose) over the number of c in m / s; v_helio
\* does not enter.
RescaledOnceByQuotientValue ==
    \A j \in 1..Len(returned) :
        LET f == quotient_value(ServedFor(Fibre(returned[j])).v_bary)
        IN \A e \in {1, 2}, key \in {"CRVAL1", "CDELT1"} :
            returned[j][e].header[key].v = Times(image[1].header[key].v, f)

AllHdus ==
    {hdu_flux, hdu_sigma}
    \cup {hdulist[e] : e \in 1..Len(hdulist)}
    \cup UNION {{extracted_sources[j][e] : e \in 1..Len(extracted_sources[j])} :
                    j \in 1..Len(extracted_sources)}
    \cup UNION {{returned[j][e] : e \in 1..Len(returned[j])} :
                    j \in 1..Len(returned)}

\* C7: every extension of every returned product has a checksum, and at any
\* moment every HDU that has a checksum still has the header and data the
\* checksum was computed over: nothing writes to an HDU after add_checksum.
C7_ChecksumAfterLastWrite ==
    /\ \A j \in 1..Len(returned) :
        \A e \in 1..Len(returned[j]) : Sealed(returned[j][e])
    /\ \A hdu \in AllHdus : hdu.checksum # <<>> => Sealed(hdu)

\* A returned product with all five extensions.
C7_Witness ==
    /\ pc = "returned"
    /\ dummy_hdus
    /\ Len(returned) >= 1
    /\ Len(returned[1]) = 5
    /\ "VRAD" \in DOMAIN returned[1][5].header

CcfFields ==
    {"VRAD", "U_VRAD", "TEFF", "LOGG", "FE_H", "ALPHA_FE"}

\* C8: with the placeholder switch on, every returned product is the five
\* extensions input_spectrum, input_sigma, normalised_spectrum,
\* normalised_sigma, CCF in that order, the normalised ones without data and
\* with the wavelength-axis fields of the corrected input_spectrum, the CCF
\* one without data and with its six fields set to "NaN"; with the switch
\* off, every product is input_spectrum, input_sigma.
C8_ExtensionsInFixedOrder ==
    \A j \in 1..Len(returned) :
        LET p == returned[j]
        IN IF dummy_hdus
           THEN /\ ExtNames(p) = <<"input_spectrum", "input_sigma",
                                   "normalised_spectrum", "normalised_sigma", "CCF">>
                /\ p[3].data = <<>>
                /\ p[4].data = <<>>
                /\ p[5].data = <<>>
                /\ SameAxis(p[3].header, p[1].header)
                /\ SameAxis(p[4].header, p[1].header)
                /\ p[1].header["CRVAL1"].v.factors # <<>>
                /\ \A key \in CcfFields : HasValue(p[5].header, key, "NaN")
           ELSE ExtNames(p) = <<"input_spectrum", "input_sigma">>

\* A returned five-extension product.
C8_Witness ==
    /\ pc = "returned"
    /\ dummy_hdus
    /\ Len(returned) = 2
    /\ Len(returned[2]) = 5
    /\ returned[2][3].data = <<>>

\* C9: the RA and DEC of every product are the catalog row's RA and DEC
\* times 180/pi, once: the conversion guarded by
\* `"RA" in keywords and "DEC" in keywords` runs for every object.
C9_CoordinatesInDegrees ==
    \A j \in 1..Len(returned) :
        LET h == returned[j][1].header
            row == Catalog[Fibre(returned[j])]
        IN /\ h["RA"].v * np_pi = row["RA"] * 180
           /\ h["DEC"].v * np_pi = row["DEC"] * 180

\* A product whose catalog RA is pi radians and whose header RA is 180.
C9_Witness ==
    /\ pc = "returned"
    /\ Len(returned) >= 1
    /\ Catalog[Fibre(returned[1])]["RA"] = np_pi
    /\ returned[1][1].header["RA"].v = 180

LoopStarted ==
    \/ pc \in {"loop", "hdus", "motion", "correct", "checksum", "dummy", "append",
               "return", "returned"}
    \/ pc = "raised" /\ error \in {"MissingCatalogField", "MotionFailure"}

ObjectKeys ==
    {"FIBRE", "NAME", "RA", "DEC", "PMRA", "PMDEC", "MAG", "DESCR",
     "V_BARY", "V_HELIO", "HISTORY", "EXTNAME"}

TemplateUntouched ==
    LoopStarted =>
        /\ DOMAIN heap[header_template] \cap ObjectKeys = {}
        /\ heap[header_template]["CRVAL1"].v = image[1].header["CRVAL1"].v
        /\ heap[header_template]["CDELT1"].v = image[1].header["CDELT1"].v

\* The catalog and calibration fields of an assembled product come from its
\* own row and its own barycentric velocity.
ProductsOwnFields ==
    \A j \in 1..Len(extracted_sources) :
        LET h == extracted_sources[j][1].header
            row == Catalog[Fibre(extracted_sources[j])]
            f == quotient_value(ServedFor(Fibre(extracted_sources[j])).v_bary)
        IN /\ h["NAME"].v = row["NAME"]
           /\ h["RA"].v = rad2deg(row["RA"])
           /\ h["DEC"].v = rad2deg(row["DEC"])
           /\ h["PMRA"].v = row["PMRA"]
           /\ h["PMDEC"].v = row["PMDEC"]
           /\ h["MAG"].v = row["MAGNITUDE"]
           /\ h["DESCR"].v = row["COMMENT"]
           /\ h["CRVAL1"].v = Times(image[1].header["CRVAL1"].v, f)
           /\ h["CDELT1"].v = Times(image[1].header["CDELT1"].v, f)

\* C10: once the object loop has started no step changes the header
\* template: it never holds an object's field, its CRVAL1 and CDELT1 stay
\* the exposure's, and every assembled product's catalog and calibration
\* fields are those of its own row and its own velocity.
C10_TemplateNeverChanges ==
    /\ [](TemplateUntouched /\ ProductsOwnFields)
    /\ [][(LoopStarted /\ LoopStarted') =>
            /\ header_template' = header_template
            /\ heap'[header_template'] = heap[header_template]]_vars

\* Two objects processed, each with its own header cloned from the template.
C10_Witness ==
    /\ pc = "returned"
    /\ Len(returned) = 2
    /\ header # header_template
    /\ returned[1][1].header["NAME"].v # returned[2][1].header["NAME"].v
    /\ returned[1][1].header["CRVAL1"].v # returned[2][1].header["CRVAL1"].v

====
